---- MODULE Spec2Model ----
(***************************************************************************)
(* create_presentation_assets.py: a linear generator that loads two JSON   *)
(* input files and writes four presentation files.                         *)
(*                                                                         *)
(* JSON objects (Python dicts) are records whose DOMAIN is the set of keys *)
(* present; a missing key is a key outside the DOMAIN and reading it       *)
(* raises KeyError.  Text is a sequence of one-character strings.  A value *)
(* rendered with the format ":.1f" is an integer number of tenths.         *)
(***************************************************************************)
EXTENDS Integers, Sequences, FiniteSets, TLC

VARIABLES
    statsFile,      \* dpo_classifier_statistics.json on disk
    samplesFile,    \* dpo_classifier_training_sample.json on disk
    fs,             \* the four output files on disk: file name -> content
    pc,             \* position of main()
    stats,          \* main's local `stats` (after load_data)
    samples,        \* main's local `samples` (after load_data)
    out,            \* lines printed to stdout by this run, in order
    err,            \* the exception that ended this run, or "none"
    failedAt,       \* the step in which the exception was raised, or "none"
    written,        \* files this run has written so far
    fs0,            \* history: content of the output files when this run began
    run,            \* number of the current run of the script (1..MaxRuns)
    prev            \* history: what the previous run left behind

vars == <<statsFile, samplesFile, fs, pc, stats, samples, out, err, failedAt,
          written, fs0, run, prev>>

----------------------------------------------------------------------------
(* Bounds of the model *)

MaxRuns       == 2   \* consecutive invocations of the script
MaxPaths      == 2   \* largest totalPaths in the statistics of a general run
MaxTotalPaths == 16  \* largest totalPaths when the percentages are examined
MaxSamples    == 2   \* longest sample array of a general run
MaxEnvPaths   == 1   \* largest totalPaths when the inputs are regenerated between runs
MaxEnvSamples == 1   \* longest sample array when the inputs are regenerated
MaxBuild      == 4   \* longest sample array when the example builder is examined
MaxSel        == 5   \* longest sample array when the selection is examined
MaxPieces     == 5   \* longest prompt, in pieces, when the extractors are examined

----------------------------------------------------------------------------
(* Text *)

NL == "\n"
Whitespace == {" ", "\t", "\r", NL}

QuestionPrefix == <<"Q", "u", "e", "s", "t", "i", "o", "n", ":">>
DepthPrefix    == <<"[", "D", "e", "p", "t", "h">>
UnknownQuestion == <<"Unknown question">>

\* str.startswith
startswith(line, prefix) ==
    /\ Len(line) >= Len(prefix)
    /\ SubSeq(line, 1, Len(prefix)) = prefix

\* str.split('\n'): the maximal pieces between newline characters
RECURSIVE splitAcc(_, _, _)
splitAcc(s, cur, acc) ==
    IF s = <<>> THEN Append(acc, cur)
    ELSE IF Head(s) = NL THEN splitAcc(Tail(s), <<>>, Append(acc, cur))
    ELSE splitAcc(Tail(s), Append(cur, Head(s)), acc)

split(s) == splitAcc(s, <<>>, <<>>)

\* str.replace(old, ''): every non-overlapping occurrence, left to right
RECURSIVE replace(_, _)
replace(s, old) ==
    IF s = <<>> THEN <<>>
    ELSE IF startswith(s, old) THEN replace(SubSeq(s, Len(old) + 1, Len(s)), old)
    ELSE <<Head(s)>> \o replace(Tail(s), old)

\* str.strip()
RECURSIVE lstrip(_)
lstrip(s) ==
    IF s # <<>> /\ Head(s) \in Whitespace THEN lstrip(Tail(s)) ELSE s

RECURSIVE rstrip(_)
rstrip(s) ==
    IF s # <<>> /\ s[Len(s)] \in Whitespace
    THEN rstrip(SubSeq(s, 1, Len(s) - 1)) ELSE s

strip(s) == rstrip(lstrip(s))

\* for line in lines: if line.startswith('Question:'): return ...
RECURSIVE questionLoop(_)
questionLoop(lines) ==
    IF lines = <<>> THEN UnknownQuestion
    ELSE IF startswith(Head(lines), QuestionPrefix)
         THEN strip(replace(Head(lines), QuestionPrefix))
    ELSE questionLoop(Tail(lines))

extract_question(prompt) == questionLoop(split(prompt))

\* variant: path.append(line), the line is kept untrimmed
extract_path_untrimmed(prompt) ==
    SelectSeq(split(prompt), LAMBDA line : startswith(line, DepthPrefix))

\* for line in lines: if line.startswith('[Depth'): path.append(line.strip())
RECURSIVE pathLoop(_, _)
pathLoop(lines, path) ==
    IF lines = <<>> THEN path
    ELSE IF startswith(Head(lines), DepthPrefix)
         THEN pathLoop(Tail(lines), Append(path, strip(Head(lines))))
    ELSE pathLoop(Tail(lines), path)

extract_path(prompt) == pathLoop(split(prompt), <<>>)

----------------------------------------------------------------------------
(* create_comparison_examples *)

has(d, k) == k \in DOMAIN d

\* s['metadata']['predictedOutcome'] and s['metadata']['actualOutcome'] can
\* be read (lines 22-23 read them for every sample)
outcomesReadable(s) ==
    /\ has(s, "metadata")
    /\ has(s.metadata, "predictedOutcome")
    /\ has(s.metadata, "actualOutcome")

isWrong(s) == s.metadata.predictedOutcome # s.metadata.actualOutcome

\* [s for s in samples if predicted != actual]
RECURSIVE wrong_predictions(_)
wrong_predictions(ss) ==
    IF ss = <<>> THEN <<>>
    ELSE IF isWrong(Head(ss)) THEN <<Head(ss)>> \o wrong_predictions(Tail(ss))
    ELSE wrong_predictions(Tail(ss))

\* seq[:n]
firstN(seq, n) == SubSeq(seq, 1, IF Len(seq) < n THEN Len(seq) ELSE n)

ExamplesShown == 3

\* the keys the loop body reads from a selected sample
exampleReadable(s) ==
    /\ has(s, "prompt")
    /\ has(s.metadata, "cumulativeProbability")
    /\ has(s, "rejected")
    /\ has(s, "chosen")

example(i, sample) ==
    [example_number |-> i,
     question |-> extract_question(sample.prompt),
     scenario_path |-> extract_path(sample.prompt),
     cumulative_probability |-> sample.metadata.cumulativeProbability,
     model_said |-> [prediction |-> sample.metadata.predictedOutcome,
                     label |-> "REJECTED",
                     reasoning |-> "Model incorrectly predicted this outcome"],
     actual_outcome |-> [answer |-> sample.metadata.actualOutcome,
                         label |-> "CHOSEN",
                         reasoning |-> "Verified historical outcome"],
     dpo_action |-> <<"Decrease P('", sample.rejected, "') and Increase P('",
                      sample.chosen, "')">>]

\* variant: wrong_predictions without the [:3]
selected_unlimited(ss) == wrong_predictions(ss)

selected(ss) == firstN(wrong_predictions(ss), ExamplesShown)

\* building the comparison raises KeyError
comparisonRaises(ss) ==
    \/ \E i \in 1..Len(ss) : ~outcomesReadable(ss[i])
    \/ \E i \in 1..Len(selected(ss)) : ~exampleReadable(selected(ss)[i])

comparison(ss) ==
    [kind |-> "comparison",
     title |-> "DPO Training: Learning from Mistakes",
     subtitle |-> "Teaching the model to prefer correct predictions over incorrect ones",
     examples |-> [i \in 1..Len(selected(ss)) |-> example(i, selected(ss)[i])]]

----------------------------------------------------------------------------
(* create_performance_table *)

\* variant: the percentage is cut after the first decimal, not rounded
format1f_truncated(count, total) == (1000 * count) \div total

\* f"{float(count)/total*100:.1f}" as a number of tenths: the nearest tenth,
\* a tie going to the even tenth (the quotient of a tie is exact in binary
\* floating point for every total below 80)
format1f(count, total) ==
    LET n == 1000 * count
        q == n \div total
        r == n % total
    IN  IF 2 * r < total THEN q
        ELSE IF 2 * r > total THEN q + 1
        ELSE IF q % 2 = 0 THEN q ELSE q + 1

\* the exception the f-string raises, its fields being evaluated in order
tableError(st) ==
    IF ~has(st, "totalDPOPairs") \/ ~has(st, "totalPaths") \/ ~has(st, "correctPaths")
    THEN "KeyError"
    ELSE IF st.totalPaths = 0 THEN "ZeroDivisionError"
    ELSE IF \/ ~has(st, "incorrectPaths")
            \/ ~has(st, "llmAccuracy")
            \/ ~has(st, "byOutcome")
         THEN "KeyError"
    ELSE IF ~has(st.byOutcome, "YES") \/ ~has(st.byOutcome, "NO") THEN "KeyError"
    ELSE "none"

table(st) ==
    [kind |-> "table",
     totalDPOPairs |-> st.totalDPOPairs,
     totalPaths |-> st.totalPaths,
     correctPaths |-> st.correctPaths,
     correctPct |-> format1f(st.correctPaths, st.totalPaths),
     incorrectPaths |-> st.incorrectPaths,
     incorrectPct |-> format1f(st.incorrectPaths, st.totalPaths),
     llmAccuracy |-> st.llmAccuracy,
     yes |-> st.byOutcome.YES,
     no |-> st.byOutcome.NO]

----------------------------------------------------------------------------
(* the static documents *)

\* variant: the path count of the diagram is taken from the statistics
diagram_interpolated ==
    [kind |-> "diagram", text |-> "DPO TRAINING PIPELINE ARCHITECTURE",
     paths |-> stats.totalPaths]

diagram == [kind |-> "diagram", text |-> "DPO TRAINING PIPELINE ARCHITECTURE"]

slides == [kind |-> "slides", text |-> "DPO Training Pipeline for Event Forecasting"]

----------------------------------------------------------------------------
(* files *)

ComparisonFile == "dpo_comparison_examples.json"
DiagramFile    == "dpo_architecture_diagram.txt"
TableFile      == "dpo_performance_table.txt"
SlidesFile     == "dpo_presentation_slides.md"

OutputFiles == {ComparisonFile, DiagramFile, TableFile, SlidesFile}

Absent == [kind |-> "absent"]         \* the file does not exist
Stale  == [kind |-> "stale"]          \* a file left by something else
Empty  == [kind |-> "empty"]          \* a file opened for writing and not written

NoFile  == [state |-> "missing"]
BadJson == [state |-> "invalid"]
Json(v) == [state |-> "json", value |-> v]

NoStats == [kind |-> "unset"]

NoPrev == [ok |-> FALSE, fs |-> [f \in OutputFiles |-> Absent],
           written |-> {}, statsFile |-> NoFile, samplesFile |-> NoFile]

----------------------------------------------------------------------------
(* inputs the runs are given *)

Drop(d, k) == [x \in DOMAIN d \ {k} |-> d[x]]

Chars(piece) ==
    CASE piece = "Question:" -> QuestionPrefix
      [] piece = "[Depth"    -> DepthPrefix
      [] piece = "Quest"     -> <<"Q", "u", "e", "s", "t">>
      [] OTHER               -> <<piece>>

RECURSIVE Concat(_)
Concat(pieces) ==
    IF pieces = <<>> THEN <<>> ELSE Chars(Head(pieces)) \o Concat(Tail(pieces))

SeqsUpTo(S, n) == UNION {[1..k -> S] : k \in 0..n}

Prompt1 == Concat(<<"Question:", " ", "a", NL, "[Depth", "1", NL, "[Depth", "2">>)
Prompt2 == Concat(<<"b", NL, "[Depth", "1", " ">>)

\* the prompt of the i-th record of a numbered sample array
PromptNo(i) == Concat(<<"Question:", " ", ToString(i)>>)

Sample(predicted, actual, prompt) ==
    [prompt |-> prompt,
     chosen |-> actual,
     rejected |-> predicted,
     metadata |-> [predictedOutcome |-> predicted,
                   actualOutcome |-> actual,
                   cumulativeProbability |-> "0.25"]]

Statistics(total, correct, incorrect) ==
    [totalDPOPairs |-> total,
     totalPaths |-> total,
     correctPaths |-> correct,
     incorrectPaths |-> incorrect,
     llmAccuracy |-> "50%",
     byOutcome |-> [YES |-> correct, NO |-> incorrect]]

StatKeys == {"totalDPOPairs", "totalPaths", "correctPaths", "incorrectPaths",
             "llmAccuracy", "byOutcome"}

\* correctPaths + incorrectPaths = totalPaths
ValidStatistics(minTotal, maxTotal) ==
    UNION {{Statistics(t, c, t - c) : c \in 0..t} : t \in minTotal..maxTotal}

----------------------------------------------------------------------------
(* main *)

Files(StatsFiles, SamplesFiles, Starts) ==
    /\ statsFile \in StatsFiles
    /\ samplesFile \in SamplesFiles
    /\ fs \in Starts
    /\ fs0 = fs
    /\ pc = "main"
    /\ stats = NoStats
    /\ samples = <<>>
    /\ out = <<>>
    /\ err = "none"
    /\ failedAt = "none"
    /\ written = {}
    /\ run = 1
    /\ prev = NoPrev

\* an exception propagates out of main: the process ends
Raise(step, exception) ==
    /\ pc' = "failed"
    /\ err' = exception
    /\ failedAt' = step

\* variant: the confirmation is printed before the file is opened
WriteAndConfirm_printFirst(step, name, content, next) ==
    \/ /\ fs' = [fs EXCEPT ![name] = content]
       /\ written' = written \cup {name}
       /\ out' = Append(out, <<"created", name>>)
       /\ pc' = next
       /\ UNCHANGED <<err, failedAt>>
    \/ /\ pc' = "failed"
       /\ err' = "OSError"
       /\ failedAt' = step
       /\ out' = Append(out, <<"created", name>>)
       /\ UNCHANGED <<fs, written>>

\* variant: the file is opened with 'a', the content is added to what is there
WriteAndConfirm_append(step, name, content, next) ==
    \/ /\ fs' = [fs EXCEPT ![name] =
                    IF fs[name] = Absent THEN content
                    ELSE [kind |-> "appended", to |-> fs[name], text |-> content]]
       /\ written' = written \cup {name}
       /\ out' = Append(out, <<"created", name>>)
       /\ pc' = next
       /\ UNCHANGED <<err, failedAt>>
    \/ /\ pc' = "failed"
       /\ err' = "OSError"
       /\ failedAt' = step
       /\ UNCHANGED <<fs, written, out>>

\* with open(name, 'w') as f: f.write(content); print("... Created ...")
\* open() either truncates and the content replaces what was there, or it
\* raises OSError and the file is left as it was
WriteAndConfirm(step, name, content, next) ==
    \/ /\ fs' = [fs EXCEPT ![name] = content]
       /\ written' = written \cup {name}
       /\ out' = Append(out, <<"created", name>>)
       /\ pc' = next
       /\ UNCHANGED <<err, failedAt>>
    \/ /\ Raise(step, "OSError")
       /\ UNCHANGED <<fs, written, out>>

\* load_data: the statistics are read first, then the samples
load_error ==
    IF statsFile.state = "missing" THEN "FileNotFoundError"
    ELSE IF statsFile.state = "invalid" THEN "JSONDecodeError"
    ELSE IF samplesFile.state = "missing" THEN "FileNotFoundError"
    ELSE IF samplesFile.state = "invalid" THEN "JSONDecodeError"
    ELSE "none"

\* variant: a file that cannot be loaded is replaced by empty data
load_data_tolerant ==
    /\ pc = "main"
    /\ stats' = IF statsFile.state = "json" THEN statsFile.value ELSE NoStats
    /\ samples' = IF samplesFile.state = "json" THEN samplesFile.value ELSE <<>>
    /\ out' = out \o <<"banner", "loading", "generating">>
    /\ pc' = "comparison"
    /\ UNCHANGED <<err, failedAt, statsFile, samplesFile, fs, written, fs0, run, prev>>

\* main, lines 369-378: banner, load_data(), "Generating" line
load_data ==
    /\ pc = "main"
    /\ IF load_error = "none"
       THEN /\ stats' = statsFile.value
            /\ samples' = samplesFile.value
            /\ out' = out \o <<"banner", "loading", "generating">>
            /\ pc' = "comparison"
            /\ UNCHANGED <<err, failedAt>>
       ELSE /\ Raise("load", load_error)
            /\ out' = out \o <<"banner", "loading">>
            /\ UNCHANGED <<stats, samples>>
    /\ UNCHANGED <<statsFile, samplesFile, fs, written, fs0, run, prev>>

\* variant: the output file is opened before the examples are built
create_comparison_examples_openFirst ==
    /\ pc = "comparison"
    /\ IF comparisonRaises(samples)
       THEN /\ pc' = "failed"
            /\ err' = "KeyError"
            /\ failedAt' = "comparison"
            /\ fs' = [fs EXCEPT ![ComparisonFile] = Empty]
            /\ UNCHANGED <<written, out>>
       ELSE WriteAndConfirm("comparison", ComparisonFile, comparison(samples), "diagram")
    /\ UNCHANGED <<statsFile, samplesFile, stats, samples, fs0, run, prev>>

create_comparison_examples ==
    /\ pc = "comparison"
    /\ IF comparisonRaises(samples)
       THEN /\ Raise("comparison", "KeyError")
            /\ UNCHANGED <<fs, written, out>>
       ELSE WriteAndConfirm("comparison", ComparisonFile, comparison(samples), "diagram")
    /\ UNCHANGED <<statsFile, samplesFile, stats, samples, fs0, run, prev>>

create_architecture_diagram ==
    /\ pc = "diagram"
    /\ WriteAndConfirm("diagram", DiagramFile, diagram, "table")
    /\ UNCHANGED <<statsFile, samplesFile, stats, samples, fs0, run, prev>>

\* variant: the output file is opened before the table is formatted
create_performance_table_openFirst ==
    /\ pc = "table"
    /\ IF tableError(stats) # "none"
       THEN /\ pc' = "failed"
            /\ err' = tableError(stats)
            /\ failedAt' = "table"
            /\ fs' = [fs EXCEPT ![TableFile] = Empty]
            /\ UNCHANGED <<written, out>>
       ELSE WriteAndConfirm("table", TableFile, table(stats), "slides")
    /\ UNCHANGED <<statsFile, samplesFile, stats, samples, fs0, run, prev>>

create_performance_table ==
    /\ pc = "table"
    /\ IF tableError(stats) # "none"
       THEN /\ Raise("table", tableError(stats))
            /\ UNCHANGED <<fs, written, out>>
       ELSE WriteAndConfirm("table", TableFile, table(stats), "slides")
    /\ UNCHANGED <<statsFile, samplesFile, stats, samples, fs0, run, prev>>

create_slide_content ==
    /\ pc = "slides"
    /\ WriteAndConfirm("slides", SlidesFile, slides, "summary")
    /\ UNCHANGED <<statsFile, samplesFile, stats, samples, fs0, run, prev>>

\* main, lines 385-406
print_summary ==
    /\ pc = "summary"
    /\ out' = out \o <<"success", "summary">>
    /\ pc' = "done"
    /\ UNCHANGED <<statsFile, samplesFile, fs, stats, samples, err, failedAt,
                   written, fs0, run, prev>>

\* the process has ended; the script is invoked again
Rerun ==
    /\ pc \in {"done", "failed"}
    /\ run < MaxRuns
    /\ prev' = [ok |-> pc = "done", fs |-> fs, written |-> written,
                statsFile |-> statsFile, samplesFile |-> samplesFile]
    /\ run' = run + 1
    /\ pc' = "main"
    /\ stats' = NoStats
    /\ samples' = <<>>
    /\ out' = <<>>
    /\ err' = "none"
    /\ failedAt' = "none"
    /\ written' = {}
    /\ fs0' = fs
    /\ UNCHANGED <<statsFile, samplesFile, fs>>

main ==
    \/ load_data
    \/ create_comparison_examples
    \/ create_architecture_diagram
    \/ create_performance_table
    \/ create_slide_content
    \/ print_summary

\* one run of the script
Next == main

\* the input files an environment that regenerates them can produce
EnvStatistics == ValidStatistics(0, MaxEnvPaths)
EnvSamples ==
    SeqsUpTo({Sample("YES", "YES", Prompt1), Sample("NO", "YES", Prompt2)}, MaxEnvSamples)

\* between two runs something else rewrites or removes one output file, or
\* one or both inputs are regenerated (one of the two happens between two runs)
EnvTouchOutput ==
    /\ pc = "main"
    /\ run > 1
    /\ fs = prev.fs
    /\ statsFile = prev.statsFile
    /\ samplesFile = prev.samplesFile
    /\ \E f \in OutputFiles, c \in {Absent, Stale} :
          /\ fs[f] # c
          /\ fs' = [fs EXCEPT ![f] = c]
    /\ fs0' = fs'
    /\ UNCHANGED <<statsFile, samplesFile, pc, stats, samples, out, err,
                   failedAt, written, run, prev>>

\* between two runs the statistics file is regenerated
EnvReplaceStats ==
    /\ pc = "main"
    /\ run > 1
    /\ fs = prev.fs
    /\ statsFile = prev.statsFile
    /\ \E v \in EnvStatistics :
          /\ Json(v) # statsFile
          /\ statsFile' = Json(v)
    /\ UNCHANGED <<samplesFile, fs, pc, stats, samples, out, err, failedAt,
                   written, fs0, run, prev>>

\* between two runs the sample file is regenerated
EnvReplaceSamples ==
    /\ pc = "main"
    /\ run > 1
    /\ fs = prev.fs
    /\ samplesFile = prev.samplesFile
    /\ \E v \in EnvSamples :
          /\ Json(v) # samplesFile
          /\ samplesFile' = Json(v)
    /\ UNCHANGED <<statsFile, fs, pc, stats, samples, out, err, failedAt,
                   written, fs0, run, prev>>

NextEnv == main \/ Rerun \/ EnvTouchOutput \/ EnvReplaceStats \/ EnvReplaceSamples

----------------------------------------------------------------------------
(* general runs *)

SampleKinds ==
    LET right == Sample("YES", "YES", Prompt1)
        wrong == Sample("NO", "YES", Prompt1)
    IN  {right, wrong, Drop(wrong, "metadata"), Drop(wrong, "prompt"),
         Drop(wrong, "chosen"), Drop(wrong, "rejected"), Drop(right, "prompt"),
         [wrong EXCEPT !.metadata = Drop(wrong.metadata, "cumulativeProbability")],
         [right EXCEPT !.metadata = Drop(right.metadata, "actualOutcome")]}

StatisticsKinds(maxTotal) ==
    LET full == Statistics(2, 1, 1)
    IN  ValidStatistics(0, maxTotal)
        \cup {Drop(full, k) : k \in StatKeys}
        \cup {Drop(Statistics(0, 0, 0), "incorrectPaths"),
              Drop(Statistics(0, 0, 0), "correctPaths"),
              [full EXCEPT !.byOutcome = [YES |-> 1]]}

Starts == [OutputFiles -> {Absent, Stale}]

Init ==
    Files({NoFile, BadJson} \cup {Json(v) : v \in StatisticsKinds(MaxPaths)},
          {NoFile, BadJson} \cup {Json(v) : v \in SeqsUpTo(SampleKinds, MaxSamples)},
          Starts)

Spec == Init /\ [][Next]_vars

----------------------------------------------------------------------------
(* runs with an environment that changes the files between runs *)

AllAbsent == [f \in OutputFiles |-> Absent]
AllStale  == [f \in OutputFiles |-> Stale]

InitEnv ==
    Files({Json(v) : v \in EnvStatistics}, {Json(v) : v \in EnvSamples},
          {AllAbsent, AllStale})

SpecEnv == InitEnv /\ [][NextEnv]_vars

----------------------------------------------------------------------------
(* runs that examine the example builder: longer arrays, damaged records *)

InitBuild ==
    Files({Json(Statistics(2, 1, 1)), Json(Statistics(0, 0, 0)),
           Json(Drop(Statistics(2, 1, 1), "llmAccuracy"))},
          {Json(v) : v \in SeqsUpTo(SampleKinds, MaxBuild)},
          {AllAbsent, AllStale})

SpecBuild == InitBuild /\ [][Next]_vars

----------------------------------------------------------------------------
(* runs that examine the selection: numbered, well-formed records *)

Outcomes == {"YES", "NO"}

Numbered(k) ==
    {[i \in 1..k |-> Sample(o[i][1], o[i][2], PromptNo(i))] :
        o \in [1..k -> Outcomes \X Outcomes]}

InitSel ==
    Files({Json(Statistics(2, 1, 1))},
          {Json(v) : v \in UNION {Numbered(k) : k \in 0..MaxSel}},
          {AllAbsent})

SpecSel == InitSel /\ [][Next]_vars

----------------------------------------------------------------------------
(* runs that examine the extractors: one mismatched record, any prompt *)

Pieces == {"Question:", "[Depth", "Quest", " ", NL, "a"}

InitText ==
    Files({Json(Statistics(2, 1, 1))},
          {Json(<<Sample("NO", "YES", Concat(p))>>) : p \in SeqsUpTo(Pieces, MaxPieces)},
          {AllAbsent})

SpecText == InitText /\ [][Next]_vars

----------------------------------------------------------------------------
(* runs that examine the percentages: valid statistics, totalPaths > 0 *)

InitPct ==
    Files({Json(v) : v \in ValidStatistics(1, MaxTotalPaths)},
          {Json(<<>>)},
          {AllAbsent})

SpecPct == InitPct /\ [][Next]_vars

----------------------------------------------------------------------------
(* Properties *)

Order == <<ComparisonFile, DiagramFile, TableFile, SlidesFile>>
Steps == <<"comparison", "diagram", "table", "slides">>

InputsLoad == statsFile.state = "json" /\ samplesFile.state = "json"

\* C1: if either input file is missing or is not valid JSON, the run ends in
\* load_data with that error and no output file has been created, opened or
\* modified: the output files are what they were when the run began.
C1_LoadFailureWritesNothing ==
    ~InputsLoad =>
        /\ pc \in {"main", "failed"}
        /\ pc = "failed" =>
              /\ failedAt = "load"
              /\ err \in {"FileNotFoundError", "JSONDecodeError"}
        /\ written = {}
        /\ fs = fs0

\* the statistics were read, the samples file is missing, and the run has ended
C1_Witness ==
    /\ pc = "failed"
    /\ statsFile.state = "json"
    /\ samplesFile.state = "missing"
    /\ \E f \in OutputFiles : fs0[f] = Stale

\* C8: a run is a linear sequence.  The files written so far are a prefix of
\* comparison, diagram, table, slides; the printed lines are the banner and
\* loading line, then one confirmation per written file in that order, and
\* the success summary exactly when all four are written and the run is done.
\* A run that failed in step k wrote exactly the k-1 files before it, printed
\* no confirmation for any other file and no success summary.
C8_LinearRun ==
    LET n == Cardinality(written)
        confirmations == [i \in 1..n |-> <<"created", Order[i]>>]
        position == CHOOSE i \in 1..5 :
                        \/ i <= 4 /\ Steps[i] \in {pc, failedAt}
                        \/ i = 5 /\ pc \in {"summary", "done"}
    IN  /\ written = {Order[i] : i \in 1..n}
        /\ pc = "main" => out = <<>> /\ n = 0
        /\ pc = "failed" /\ failedAt = "load" => out = <<"banner", "loading">> /\ n = 0
        /\ pc \notin {"main", "done"} /\ failedAt # "load" =>
              /\ out = <<"banner", "loading", "generating">> \o confirmations
              /\ n = position - 1
        /\ pc = "done" =>
              /\ out = <<"banner", "loading", "generating">> \o confirmations
                         \o <<"success", "summary">>
              /\ n = 4
        /\ pc = "failed" <=> err # "none"
        /\ \A f \in OutputFiles \ written : fs[f] = fs0[f]

\* a write failed in the table step after two files were written
C8_Witness ==
    /\ pc = "failed"
    /\ failedAt = "table"
    /\ err = "OSError"
    /\ written = {ComparisonFile, DiagramFile}

\* the statistics have the fields the table reads before it divides
DividesByZero(st) ==
    /\ {"totalDPOPairs", "totalPaths", "correctPaths"} \subseteq DOMAIN st
    /\ st.totalPaths = 0

\* C6: with totalPaths = 0 the run never gets past the performance-table step,
\* and when it fails there the error is a division error, the comparison file
\* and the diagram are written and in place, the table and the slides are as
\* they were before the run, and no success is reported.
C6_ZeroTotalPaths ==
    DividesByZero(stats) =>
        /\ pc \notin {"slides", "summary", "done"}
        /\ pc = "failed" /\ failedAt = "table" =>
              /\ err = "ZeroDivisionError"
              /\ written = {ComparisonFile, DiagramFile}
              /\ fs[ComparisonFile].kind = "comparison"
              /\ fs[DiagramFile].kind = "diagram"
              /\ fs[TableFile] = fs0[TableFile]
              /\ fs[SlidesFile] = fs0[SlidesFile]
              /\ \A i \in 1..Len(out) : out[i] # "success"

\* the run failed on the division with older files of all four names present
C6_Witness ==
    /\ pc = "failed"
    /\ failedAt = "table"
    /\ err = "ZeroDivisionError"
    /\ stats.totalPaths = 0
    /\ fs0 = [f \in OutputFiles |-> Stale]

\* positions of the records whose two outcomes differ, and the first three
Mismatched(ss) ==
    {i \in 1..Len(ss) :
        /\ "metadata" \in DOMAIN ss[i]
        /\ {"predictedOutcome", "actualOutcome"} \subseteq DOMAIN ss[i].metadata
        /\ ss[i].metadata.predictedOutcome # ss[i].metadata.actualOutcome}

Before(S, i) == Cardinality({j \in S : j < i})

FirstThree(ss) == {i \in Mismatched(ss) : Before(Mismatched(ss), i) < 3}

Nth(S, k) == CHOOSE i \in S : Before(S, i) = k - 1

BuildMustFail(ss) ==
    \/ \E i \in 1..Len(ss) : "metadata" \notin DOMAIN ss[i]
    \/ \E i \in FirstThree(ss) : ~({"prompt", "chosen", "rejected"} \subseteq DOMAIN ss[i])

\* every record has its metadata in full and the first three mismatched
\* records have every field; the other records may lack fields
SoundWhereRead(ss) ==
    /\ \A i \in 1..Len(ss) :
          /\ "metadata" \in DOMAIN ss[i]
          /\ DOMAIN ss[i].metadata =
                {"predictedOutcome", "actualOutcome", "cumulativeProbability"}
    /\ \A i \in FirstThree(ss) : {"prompt", "chosen", "rejected"} \subseteq DOMAIN ss[i]

ComparisonBuildFailed == failedAt = "comparison" /\ err = "KeyError"

\* C10: a formatter builds its document before it opens its file.  Building
\* the comparison fails when a sample lacks metadata or one of the first three
\* mismatched samples lacks prompt, chosen or rejected, and not because of a
\* field missing from a later mismatched sample; when it fails the comparison
\* file is what it was before the run.  When building the table fails (a
\* missing statistic or totalPaths = 0) the table file is what it was.
C10_BuildBeforeOpen ==
    /\ pc \notin {"main", "comparison"} /\ failedAt # "load" =>
          /\ BuildMustFail(samples) => ComparisonBuildFailed
          /\ SoundWhereRead(samples) => ~ComparisonBuildFailed
    /\ ComparisonBuildFailed => fs = fs0
    /\ failedAt = "table" /\ err \in {"KeyError", "ZeroDivisionError"} =>
          /\ fs[TableFile] = fs0[TableFile]
          /\ fs[SlidesFile] = fs0[SlidesFile]

\* every sample has metadata, one of the first three mismatched samples lacks
\* a field, and the run failed on it with an older comparison file present
C10_Witness ==
    /\ pc = "failed"
    /\ failedAt = "comparison"
    /\ err = "KeyError"
    /\ \A i \in 1..Len(samples) : "metadata" \in DOMAIN samples[i]
    /\ Len(samples) = 4
    /\ fs0[ComparisonFile] = Stale
    /\ fs[ComparisonFile] = Stale

\* C7: a second run on unchanged inputs leaves all four files exactly as the
\* first successful run left them, whatever happened to an output file in
\* between: each file is overwritten in full.
C7_Idempotent ==
    /\ pc = "done"
    /\ run > 1
    /\ prev.ok
    /\ statsFile = prev.statsFile
    /\ samplesFile = prev.samplesFile
    => fs = prev.fs

\* the second run has finished after an output file was replaced or removed
C7_Witness ==
    /\ pc = "done"
    /\ run = 2
    /\ prev.ok
    /\ statsFile = prev.statsFile
    /\ samplesFile = prev.samplesFile
    /\ fs0 # prev.fs
    /\ Len(samples) > 0

SameAsBefore(f) == f \in written /\ f \in prev.written => fs[f] = prev.fs[f]

\* C9: the diagram and the slides written by two runs are identical whatever
\* the inputs of the two runs; the comparison files are identical when the
\* samples are, and the tables are identical when the statistics are.
C9_StaticDocuments ==
    run > 1 =>
        /\ SameAsBefore(DiagramFile)
        /\ SameAsBefore(SlidesFile)
        /\ samplesFile = prev.samplesFile => SameAsBefore(ComparisonFile)
        /\ statsFile = prev.statsFile => SameAsBefore(TableFile)

\* two complete runs on different statistics and different samples
C9_Witness ==
    /\ pc = "done"
    /\ run = 2
    /\ prev.ok
    /\ statsFile # prev.statsFile
    /\ samplesFile # prev.samplesFile
    /\ fs[ComparisonFile] # prev.fs[ComparisonFile]
    /\ fs[TableFile] # prev.fs[TableFile]

Min(a, b) == IF a < b THEN a ELSE b

\* C2: the examples written are the first min(3, k) records whose predicted
\* and actual outcomes differ, in input order (k the number of such records):
\* never more than 3, never a record whose outcomes are equal, and building
\* them raises no error when k < 3.
C2_FirstThreeMismatches ==
    LET input == samplesFile.value
        W == Mismatched(input)
        n == Min(3, Cardinality(W))
    IN  /\ failedAt = "comparison" => err = "OSError"
        /\ ComparisonFile \in written =>
              LET ex == fs[ComparisonFile].examples
              IN  /\ Len(ex) = n
                  /\ Len(ex) <= 3
                  /\ \A j \in 1..Len(ex) :
                        LET i == Nth(W, j)
                        IN  /\ ex[j].example_number = j
                            /\ ex[j].question = <<ToString(i)>>
                            /\ ex[j].model_said.prediction = input[i].metadata.predictedOutcome
                            /\ ex[j].actual_outcome.answer = input[i].metadata.actualOutcome
                            /\ ex[j].model_said.prediction # ex[j].actual_outcome.answer

\* five records, the first and the third mismatched: two examples were written
C2_Witness ==
    /\ ComparisonFile \in written
    /\ Len(samples) = 5
    /\ Mismatched(samples) = {1, 3}
    /\ Len(fs[ComparisonFile].examples) = 2

\* t is line without its leading and trailing whitespace
Trimmed(t, line) ==
    \E i \in 1..(Len(line) + 1) :
        /\ \A k \in 1..(i - 1) : line[k] \in Whitespace
        /\ \A k \in (i + Len(t))..Len(line) : line[k] \in Whitespace
        /\ i + Len(t) - 1 <= Len(line)
        /\ t = SubSeq(line, i, i + Len(t) - 1)
        /\ t # <<>> => t[1] \notin Whitespace /\ t[Len(t)] \notin Whitespace

TextPrompt == samplesFile.value[1].prompt

LinesWith(prefix) ==
    {i \in 1..Len(split(TextPrompt)) :
        /\ Len(split(TextPrompt)[i]) >= Len(prefix)
        /\ \A k \in 1..Len(prefix) : split(TextPrompt)[i][k] = prefix[k]}

\* C4: the scenario path is the lines of the prompt that begin with "[Depth",
\* each trimmed and with the prefix retained, in prompt order: as many
\* entries as there are such lines, the k-th entry being the k-th such line.
C4_DepthLines ==
    ComparisonFile \in written =>
        LET path == fs[ComparisonFile].examples[1].scenario_path
            D == LinesWith(DepthPrefix)
        IN  /\ Len(path) = Cardinality(D)
            /\ \A k \in 1..Len(path) :
                  /\ Trimmed(path[k], split(TextPrompt)[Nth(D, k)])
                  /\ SubSeq(path[k], 1, Len(DepthPrefix)) = DepthPrefix

\* a prompt with two "[Depth" lines, one ending in a blank, and another line
C4_Witness ==
    /\ ComparisonFile \in written
    /\ Cardinality(LinesWith(DepthPrefix)) = 2
    /\ Len(split(TextPrompt)) = 3
    /\ \E i \in LinesWith(DepthPrefix) :
          split(TextPrompt)[i] # fs[ComparisonFile].examples[1].scenario_path[1]

\* C3: the question is the first line that begins with "Question:", without
\* that prefix and trimmed, the rest of the line unchanged; the placeholder
\* when no line begins with "Question:".
C3_QuestionLine ==
    ComparisonFile \in written =>
        LET question == fs[ComparisonFile].examples[1].question
            Q == LinesWith(QuestionPrefix)
            line == split(TextPrompt)[Nth(Q, 1)]
        IN  IF Q = {} THEN question = UnknownQuestion
            ELSE Trimmed(question, SubSeq(line, Len(QuestionPrefix) + 1, Len(line)))

\* C5: the two percentages of the table are the nearest tenths to
\* correctPaths/totalPaths*100 and incorrectPaths/totalPaths*100, and their
\* sum is within 0.1 of 100.0 (percentages are numbers of tenths).
C5_Percentages ==
    TableFile \in written =>
        LET st == statsFile.value
            t == fs[TableFile]
            Nearest(p, count) ==
                /\ 2 * (p * st.totalPaths - 1000 * count) <= st.totalPaths
                /\ 2 * (1000 * count - p * st.totalPaths) <= st.totalPaths
        IN  /\ Nearest(t.correctPct, st.correctPaths)
            /\ Nearest(t.incorrectPct, st.incorrectPaths)
            /\ t.correctPct + t.incorrectPct - 1000 \in {-1, 0, 1}

\* 1 of 16 paths correct: 6.25 and 93.75 are both halfway between two tenths
C5_Witness ==
    /\ TableFile \in written
    /\ stats.totalPaths = 16
    /\ stats.correctPaths = 1
    /\ fs[TableFile].correctPct = 62
    /\ fs[TableFile].incorrectPct = 938

====
